---- MODULE Spec2Model ----
(***************************************************************************)
(* Model of rubrics_importer: rubric_import.py (selective migration of     *)
(* rubrics into target courses), auto_assign_rubrics.py (rubric matching   *)
(* and decision classification) and apply_decisions.py (replay of a        *)
(* decisions file).                                                        *)
(*                                                                         *)
(* Strings are sequences of one-character strings, so that lower(),        *)
(* strip(), substring tests, the regular expressions and the string order  *)
(* are computed character by character as Python computes them.            *)
(***************************************************************************)
EXTENDS Integers, Sequences, FiniteSets, TLC

\* ------------------------------------------------------------------------
\* Bounds of the model
\* ------------------------------------------------------------------------
MaxBatch == 2
MaxItems == 2
MaxPolls == 2
MaxRubrics == 2
MaxRows == 2

\* Python's None where the other values are strings
None == "None"
\* an optional value of another type: Nothing, or Some(v)
Nothing == {}
Some(v) == {v}
Val(o) == CHOOSE v \in o : TRUE

\* ------------------------------------------------------------------------
\* Python string primitives
\* ------------------------------------------------------------------------
UpperChars == <<"A","B","C","D","E","F","G","H","I","J","K","L","M",
                "N","O","P","Q","R","S","T","U","V","W","X","Y","Z">>
LowerChars == <<"a","b","c","d","e","f","g","h","i","j","k","l","m",
                "n","o","p","q","r","s","t","u","v","w","x","y","z">>
DigitChars == <<"0","1","2","3","4","5","6","7","8","9">>
\* the characters of the model in code point order
AsciiOrder == <<" ", "(", ")", "-", "/">> \o DigitChars \o <<":">> \o UpperChars \o LowerChars
Whitespace == {" "}

CharsOf(seq) == { seq[i] : i \in 1..Len(seq) }
IndexIn(seq) == [c \in CharsOf(seq) |-> CHOOSE i \in 1..Len(seq) : seq[i] = c]
UpperSet == CharsOf(UpperChars)
LowerSet == CharsOf(LowerChars)
DigitSet == CharsOf(DigitChars)
UpperIndex == IndexIn(UpperChars)
LowerIndex == IndexIn(LowerChars)
DigitIndex == IndexIn(DigitChars)
AsciiIndex == IndexIn(AsciiOrder)

IsUpper(c) == c \in UpperSet
IsLower(c) == c \in LowerSet
IsDigit(c) == c \in DigitSet
\* [A-Za-z]
IsAlpha(c) == IsUpper(c) \/ IsLower(c)
DigitVal(c) == DigitIndex[c] - 1
Ord(c) == AsciiIndex[c]

\* str.lower()
LowerC(c) == IF IsUpper(c) THEN LowerChars[UpperIndex[c]] ELSE c
LowerS(s) == [i \in 1..Len(s) |-> LowerC(s[i])]

\* str.upper()
UpperC(c) == IF IsLower(c) THEN UpperChars[LowerIndex[c]] ELSE c
UpperS(s) == [i \in 1..Len(s) |-> UpperC(s[i])]

\* str.strip()
StripS(s) ==
    LET keep == {i \in 1..Len(s) : s[i] \notin Whitespace}
    IN  IF keep = {} THEN <<>>
        ELSE LET lo == CHOOSE i \in keep : \A j \in keep : i <= j
                 hi == CHOOSE i \in keep : \A j \in keep : j <= i
             IN  SubSeq(s, lo, hi)

\* sub in s
Contains(s, sub) ==
    \E i \in 0..(Len(s) - Len(sub)) : SubSeq(s, i + 1, i + Len(sub)) = sub

\* s < t for Python strings (code point order, a proper prefix is smaller)
StrLess(s, t) ==
    \E k \in 1..(Len(t)) :
        /\ \A j \in 1..(k - 1) : j <= Len(s) /\ s[j] = t[j]
        /\ Len(s) >= k - 1
        /\ (Len(s) = k - 1 \/ Ord(s[k]) < Ord(t[k]))

\* ------------------------------------------------------------------------
\* rubric_import.py : inputs
\* ------------------------------------------------------------------------
T_Ug25 == <<"U","g"," ","2","5">>
T_Pg24sp == <<"P","g"," ","2","4"," ">>
T_UG25sp == <<" ","U","G"," ","2","5"," ">>
\* titles of the rubrics of the source course
ImportTitles == {T_Ug25, T_Pg24sp}
\* --match: "25" keeps the first title, "G " keeps both, "z" keeps none
Matches == { <<"2","5">>, <<"G"," ">>, <<"z">> }
\* rubric titles a target course may hold before the run
InitialTargetRubrics == { <<>>, <<T_UG25sp>> }

\* the courses of the platform; the SIS id of course k is k
CourseIds == {1, 2}
\* the sis_course_id column of the CSV: any batch of SIS ids, a course may
\* be listed more than once
Batches == [1..MaxBatch -> CourseIds]

SeqsUpTo(S, n) == UNION {[1..k -> S] : k \in 0..n}

\* selectable items of the source course: a title and an opaque,
\* per-item property key
ItemLists == { [i \in 1..Len(ts) |-> [title |-> ts[i], property |-> i]] :
                  ts \in SeqsUpTo(ImportTitles, MaxItems) }

VARIABLES
    \* command line of rubric_import.py
    rubric_match, dry_run, no_wait,
    \* the platform
    srcItems,        \* selectable rubric items of the source course
    targetRubrics,   \* course -> sequence of rubric titles
    migrations,      \* sequence of content migrations, id = index
    \* main
    sis_ids, pc, idx,
    \* import_selected_rubrics locals
    target_id, existing_titles, migration_id, rubric_items, matching,
    new_rubrics, copy_params, progress_url,
    \* observation
    reqs,            \* requests issued for the current target course
    polls,           \* progress reads of the current wait_for_completion
    outcome,         \* how the last import_selected_rubrics ended
    raised,          \* the request whose HTTPError left main, or None
    visited,         \* indexes of sis_ids whose loop iteration has started
    priorCompleted,  \* a migration of this target had completed when this flow began
    snapshotPartial, \* get_rubrics stopped at a page that did not answer 200
    \* command line of auto_assign_rubrics.py (dry_run and sis_ids as above)
    threshold, log_arg,
    \* auto_assign_rubrics.main and apply_decisions.main locals
    course_id, rubrics, upcoming, aidx, current_rubric, best, decision,
    overlap, decisions, rubric_id, success,
    logFile,         \* rows written to the decision log, or None
    assocReqs,       \* rubric association requests sent, in order
    applyCalls,      \* calls of apply_rubric, in order
    \* apply_decisions.main
    rows, actionable, assignment_id

args == <<rubric_match, dry_run, no_wait>>
platform == <<srcItems, targetRubrics, migrations>>
locals == <<target_id, existing_titles, migration_id, rubric_items, matching,
            new_rubrics, copy_params, progress_url>>
obs == <<reqs, polls, outcome, raised, visited, priorCompleted, snapshotPartial>>
assignVars == <<threshold, log_arg, course_id, rubrics, upcoming, aidx,
                current_rubric, best, decision, overlap, decisions, rubric_id,
                success, logFile, assocReqs, applyCalls>>
applyVars == <<rows, actionable, assignment_id>>
vars == <<args, platform, sis_ids, pc, idx, locals, obs, assignVars, applyVars>>

\* ------------------------------------------------------------------------
\* rubric_import.py : pure parts of import_selected_rubrics
\* ------------------------------------------------------------------------
\* existing_titles = {r["title"].strip().lower() for r in target_rubrics}
ExistingTitles(target_rubrics) ==
    { LowerS(StripS(target_rubrics[i])) : i \in 1..Len(target_rubrics) }

\* matching = [item for item in rubric_items
\*             if rubric_match.lower() in item["title"].lower()]
MatchesItem(item, match) == Contains(LowerS(item.title), LowerS(match))
Matching(items, match) == SelectSeq(items, LAMBDA item : MatchesItem(item, match))

\* new_rubrics = [m for m in matching
\*                if m["title"].strip().lower() not in existing_titles]
\* mutant: the item title is stripped but not lower-cased
IsNew_NoLower(m, existing) == StripS(m.title) \notin existing
IsNew(m, existing) == LowerS(StripS(m.title)) \notin existing
NewRubrics(items, existing) == SelectSeq(items, LAMBDA m : IsNew(m, existing))

\* copy_params = {m["property"]: 1 for m in new_rubrics}
CopyParams(items) == { items[i].property : i \in 1..Len(items) }

\* get_rubrics: pages are read in order; a page that does not answer 200
\* ends the loop and the pages read so far are returned
PageSize == 1
GetRubricsResults(all) ==
    { SubSeq(all, 1, k) : k \in {j \in 0..Len(all) : j % PageSize = 0 \/ j = Len(all)} }

\* ------------------------------------------------------------------------
\* rubric_import.py : state machine
\* ------------------------------------------------------------------------
\* the variables of a script that is not the one running
IdleImport ==
    /\ rubric_match = None
    /\ no_wait = FALSE
    /\ srcItems = <<>>
    /\ targetRubrics = <<>>
    /\ migrations = <<>>
    /\ target_id = None
    /\ existing_titles = {}
    /\ migration_id = None
    /\ rubric_items = <<>>
    /\ matching = <<>>
    /\ new_rubrics = <<>>
    /\ copy_params = {}
    /\ progress_url = FALSE
    /\ reqs = <<>>
    /\ polls = 0
    /\ outcome = None
    /\ raised = None
    /\ visited = {}
    /\ priorCompleted = FALSE
    /\ snapshotPartial = FALSE

AssignLocalsInit ==
    /\ course_id = None
    /\ rubrics = <<>>
    /\ upcoming = <<>>
    /\ aidx = 1
    /\ current_rubric = <<>>
    /\ best = Nothing
    /\ decision = None
    /\ overlap = 0
    /\ decisions = <<>>
    /\ rubric_id = Nothing
    /\ success = Nothing
    /\ logFile = Nothing
    /\ assocReqs = <<>>
    /\ applyCalls = <<>>

IdleAssign ==
    /\ threshold = 1
    /\ log_arg = FALSE
    /\ AssignLocalsInit

IdleApply ==
    /\ rows = <<>>
    /\ actionable = <<>>
    /\ assignment_id = Nothing

InitImport ==
    /\ IdleAssign
    /\ IdleApply
    /\ rubric_match \in Matches
    /\ dry_run \in BOOLEAN
    /\ no_wait \in BOOLEAN
    /\ srcItems \in ItemLists
    /\ targetRubrics \in [CourseIds -> InitialTargetRubrics]
    /\ migrations = <<>>
    /\ sis_ids \in Batches
    /\ pc = "main_loop"
    /\ idx = 1
    /\ target_id = None
    /\ existing_titles = {}
    /\ migration_id = None
    /\ rubric_items = <<>>
    /\ matching = <<>>
    /\ new_rubrics = <<>>
    /\ copy_params = {}
    /\ progress_url = FALSE
    /\ reqs = <<>>
    /\ polls = 0
    /\ outcome = None
    /\ raised = None
    /\ visited = {}
    /\ priorCompleted = FALSE
    /\ snapshotPartial = FALSE

ResetLocals ==
    /\ target_id' = None
    /\ existing_titles' = {}
    /\ migration_id' = None
    /\ rubric_items' = <<>>
    /\ matching' = <<>>
    /\ new_rubrics' = <<>>
    /\ copy_params' = {}
    /\ progress_url' = FALSE

\* import_selected_rubrics returns to the loop of main, which sleeps and
\* goes on with the next sis_id
Return(how) ==
    /\ outcome' = how
    /\ pc' = "main_loop"
    /\ idx' = idx + 1

\* an uncaught requests.HTTPError leaves main
Raise(what) ==
    /\ raised' = what
    /\ outcome' = "raised"
    /\ pc' = "crashed"
    /\ idx' = idx

\* target courses one of whose migrations has completed
CompletedTargets ==
    { migrations[m].target : m \in {k \in 1..Len(migrations) :
                                       migrations[k].workflow_state = "completed"} }

\* main: for sis_id in sis_ids: target_id = find_course_by_sis_id(sis_id)
FindCourse ==
    /\ pc = "main_loop"
    /\ idx <= Len(sis_ids)
    /\ visited' = visited \cup {idx}
    /\ reqs' = <<"find">>
    /\ polls' = 0
    /\ \E found \in BOOLEAN :
          IF found
          THEN /\ target_id' = sis_ids[idx]
               /\ pc' = "snapshot"
               /\ idx' = idx
               /\ outcome' = None
               /\ existing_titles' = {}
               /\ migration_id' = None
               /\ rubric_items' = <<>>
               /\ matching' = <<>>
               /\ new_rubrics' = <<>>
               /\ copy_params' = {}
               /\ progress_url' = FALSE
          ELSE /\ ResetLocals
               /\ Return("course_not_found")
    /\ priorCompleted' = (sis_ids[idx] \in CompletedTargets)
    /\ snapshotPartial' = FALSE
    /\ UNCHANGED <<args, platform, sis_ids, raised>>
    /\ UNCHANGED <<assignVars, applyVars>>

\* mutant: a read that stopped early ends the flow of the course
Snapshot_GuardedRead ==
    /\ pc = "snapshot"
    /\ \E target_rubrics \in GetRubricsResults(targetRubrics[target_id]) :
          /\ existing_titles' = ExistingTitles(target_rubrics)
          /\ snapshotPartial' = (target_rubrics # targetRubrics[target_id])
    /\ reqs' = Append(reqs, "rubrics")
    /\ IF snapshotPartial'
       THEN Return("snapshot_failed")
       ELSE pc' = "create" /\ UNCHANGED <<idx, outcome>>
    /\ UNCHANGED <<args, platform, sis_ids, target_id, migration_id, rubric_items,
                   matching, new_rubrics, copy_params, progress_url,
                   polls, raised, visited, priorCompleted>>
    /\ UNCHANGED <<assignVars, applyVars>>

\* Step 0: target_rubrics = get_rubrics(target_id)
Snapshot ==
    /\ pc = "snapshot"
    /\ \E target_rubrics \in GetRubricsResults(targetRubrics[target_id]) :
          /\ existing_titles' = ExistingTitles(target_rubrics)
          /\ snapshotPartial' = (target_rubrics # targetRubrics[target_id])
    /\ reqs' = Append(reqs, "rubrics")
    /\ pc' = "create"
    /\ UNCHANGED <<args, platform, idx, sis_ids, target_id, migration_id, rubric_items,
                   matching, new_rubrics, copy_params, progress_url,
                   polls, outcome, raised, visited, priorCompleted>>
    /\ UNCHANGED <<assignVars, applyVars>>

\* mutant: a dry run returns before the create request
CreateMigration_SkipInDryRun ==
    /\ pc = "create"
    /\ reqs' = IF dry_run THEN reqs ELSE Append(reqs, "create")
    /\ \E ok \in BOOLEAN :
          IF dry_run
          THEN /\ Return("dry_run")
               /\ UNCHANGED <<migrations, migration_id>>
          ELSE IF ok
          THEN /\ migrations' = Append(migrations,
                     [target |-> target_id, workflow_state |-> "waiting_for_select",
                      selected |-> {}])
               /\ migration_id' = Len(migrations) + 1
               /\ pc' = "list"
               /\ UNCHANGED <<idx, outcome>>
          ELSE /\ Return("create_failed")
               /\ UNCHANGED <<migrations, migration_id>>
    /\ UNCHANGED <<args, srcItems, targetRubrics, sis_ids, target_id, existing_titles,
                   rubric_items, matching, new_rubrics, copy_params, progress_url,
                   polls, raised, visited, priorCompleted, snapshotPartial>>
    /\ UNCHANGED <<assignVars, applyVars>>

\* Step 1: POST content_migrations
CreateMigration ==
    /\ pc = "create"
    /\ reqs' = Append(reqs, "create")
    /\ \E ok \in BOOLEAN :
          IF ok
          THEN /\ migrations' = Append(migrations,
                     [target |-> target_id, workflow_state |-> "waiting_for_select",
                      selected |-> {}])
               /\ migration_id' = Len(migrations) + 1
               /\ pc' = "list"
               /\ UNCHANGED <<idx, outcome>>
          ELSE /\ Return("create_failed")
               /\ UNCHANGED <<migrations, migration_id>>
    /\ UNCHANGED <<args, srcItems, targetRubrics, sis_ids, target_id, existing_titles,
                   rubric_items, matching, new_rubrics, copy_params, progress_url,
                   polls, raised, visited, priorCompleted, snapshotPartial>>
    /\ UNCHANGED <<assignVars, applyVars>>

\* mutant: a failed list request ends the course like a failed create
ListItems_ReturnOnFailure ==
    /\ pc = "list"
    /\ reqs' = Append(reqs, "list")
    /\ \E ok \in BOOLEAN :
          IF ok
          THEN /\ rubric_items' = srcItems
               /\ IF srcItems = <<>>
                  THEN Return("no_items")
                  ELSE pc' = "filter" /\ UNCHANGED <<idx, outcome>>
               /\ UNCHANGED raised
          ELSE /\ Return("list_failed")
               /\ UNCHANGED <<rubric_items, raised>>
    /\ UNCHANGED <<args, platform, sis_ids, target_id, existing_titles, migration_id,
                   matching, new_rubrics, copy_params, progress_url,
                   polls, visited, priorCompleted, snapshotPartial>>
    /\ UNCHANGED <<assignVars, applyVars>>

\* Step 2: GET selective_data?type=rubrics; r.raise_for_status()
ListItems ==
    /\ pc = "list"
    /\ reqs' = Append(reqs, "list")
    /\ \E ok \in BOOLEAN :
          IF ok
          THEN /\ rubric_items' = srcItems
               /\ IF srcItems = <<>>
                  THEN Return("no_items")
                  ELSE pc' = "filter" /\ UNCHANGED <<idx, outcome>>
               /\ UNCHANGED raised
          ELSE /\ Raise("list")
               /\ UNCHANGED rubric_items
    /\ UNCHANGED <<args, platform, sis_ids, target_id, existing_titles, migration_id,
                   matching, new_rubrics, copy_params, progress_url,
                   polls, visited, priorCompleted, snapshotPartial>>
    /\ UNCHANGED <<assignVars, applyVars>>

\* mutant: the exit on an empty new_rubrics is missing
Filter_NoSkip ==
    /\ pc = "filter"
    /\ matching' = Matching(rubric_items, rubric_match)
    /\ IF matching' = <<>>
       THEN /\ Return("no_match")
            /\ UNCHANGED <<new_rubrics, copy_params>>
       ELSE /\ new_rubrics' = NewRubrics(matching', existing_titles)
            /\ IF FALSE
               THEN Return("all_exist") /\ UNCHANGED copy_params
               ELSE IF dry_run
                    THEN Return("dry_run") /\ UNCHANGED copy_params
                    ELSE /\ copy_params' = CopyParams(new_rubrics')
                         /\ pc' = "trigger"
                         /\ UNCHANGED <<idx, outcome>>
    /\ UNCHANGED <<args, platform, sis_ids, target_id, existing_titles, migration_id,
                   rubric_items, progress_url, reqs, polls, raised, visited,
                   priorCompleted, snapshotPartial>>
    /\ UNCHANGED <<assignVars, applyVars>>

\* matching, Step 3 (new_rubrics), dry-run exit and Step 4 (copy_params)
Filter ==
    /\ pc = "filter"
    /\ matching' = Matching(rubric_items, rubric_match)
    /\ IF matching' = <<>>
       THEN /\ Return("no_match")
            /\ UNCHANGED <<new_rubrics, copy_params>>
       ELSE /\ new_rubrics' = NewRubrics(matching', existing_titles)
            /\ IF new_rubrics' = <<>>
               THEN Return("all_exist") /\ UNCHANGED copy_params
               ELSE IF dry_run
                    THEN Return("dry_run") /\ UNCHANGED copy_params
                    ELSE /\ copy_params' = CopyParams(new_rubrics')
                         /\ pc' = "trigger"
                         /\ UNCHANGED <<idx, outcome>>
    /\ UNCHANGED <<args, platform, sis_ids, target_id, existing_titles, migration_id,
                   rubric_items, progress_url, reqs, polls, raised, visited,
                   priorCompleted, snapshotPartial>>
    /\ UNCHANGED <<assignVars, applyVars>>

\* if progress_url and not no_wait: ... elif no_wait: ... else: ...
\* mutant: the first test forgets no_wait
TriggerBranch_IgnoreNoWait(url, nowait) ==
    IF url THEN "poll" ELSE IF nowait THEN "no_wait" ELSE "no_progress_url"
\* mutant: without no_wait the wait is entered whether or not a progress
\* URL came back
TriggerBranch_PollWithoutUrl(url, nowait) ==
    IF ~nowait THEN "poll" ELSE "no_wait"
TriggerBranch(url, nowait) ==
    IF url /\ ~nowait THEN "poll" ELSE IF nowait THEN "no_wait" ELSE "no_progress_url"

\* mutant: a refused trigger request is followed by the wait for completion
Trigger_PollAfterFailure ==
    /\ pc = "trigger"
    /\ reqs' = Append(reqs, "trigger")
    /\ \E ok \in BOOLEAN, url \in BOOLEAN :
          IF ok
          THEN /\ migrations' = [migrations EXCEPT ![migration_id] =
                     [@ EXCEPT !.workflow_state = "running", !.selected = copy_params]]
               /\ progress_url' = url
               /\ IF TriggerBranch(url, no_wait) = "poll"
                  THEN pc' = "poll" /\ UNCHANGED <<idx, outcome>>
                  ELSE Return(TriggerBranch(url, no_wait))
          ELSE /\ pc' = "poll"
               /\ UNCHANGED <<idx, outcome, migrations, progress_url>>
    /\ UNCHANGED <<args, srcItems, targetRubrics, sis_ids, target_id, existing_titles,
                   migration_id, rubric_items, matching, new_rubrics, copy_params,
                   polls, raised, visited, priorCompleted, snapshotPartial>>
    /\ UNCHANGED <<assignVars, applyVars>>

\* Step 5: PUT content_migrations/{id} and the branch on progress_url / no_wait
Trigger ==
    /\ pc = "trigger"
    /\ reqs' = Append(reqs, "trigger")
    /\ \E ok \in BOOLEAN, url \in BOOLEAN :
          IF ok
          THEN /\ migrations' = [migrations EXCEPT ![migration_id] =
                     [@ EXCEPT !.workflow_state = "running", !.selected = copy_params]]
               /\ progress_url' = url
               /\ IF TriggerBranch(url, no_wait) = "poll"
                  THEN pc' = "poll" /\ UNCHANGED <<idx, outcome>>
                  ELSE Return(TriggerBranch(url, no_wait))
          ELSE /\ Return("trigger_failed")
               /\ UNCHANGED <<migrations, progress_url>>
    /\ UNCHANGED <<args, srcItems, targetRubrics, sis_ids, target_id, existing_titles,
                   migration_id, rubric_items, matching, new_rubrics, copy_params,
                   polls, raised, visited, priorCompleted, snapshotPartial>>
    /\ UNCHANGED <<assignVars, applyVars>>

\* wait_for_completion: one iteration of the while True loop
Poll ==
    /\ pc = "poll"
    /\ polls' = IF polls < MaxPolls THEN polls + 1 ELSE polls
    /\ reqs' = IF polls < MaxPolls THEN Append(reqs, "poll") ELSE reqs
    /\ \E ok \in BOOLEAN :
          IF ok
          THEN LET state == migrations[migration_id].workflow_state
               IN  /\ IF state \in {"completed", "failed"}
                      THEN Return(state)
                      ELSE UNCHANGED <<pc, idx, outcome>>
                   /\ UNCHANGED raised
          ELSE Raise("poll")
    /\ UNCHANGED <<args, platform, sis_ids, locals, visited, priorCompleted, snapshotPartial>>
    /\ UNCHANGED <<assignVars, applyVars>>

\* main: the loop over sis_ids is exhausted
MainDone ==
    /\ pc = "main_loop"
    /\ idx > Len(sis_ids)
    /\ pc' = "done"
    /\ UNCHANGED <<args, platform, idx, sis_ids, locals, obs>>
    /\ UNCHANGED <<assignVars, applyVars>>

\* the platform runs a triggered migration to its end: the selected rubrics
\* are copied into the target course, or the job fails
TitlesOf(items, keys) ==
    LET sel == SelectSeq(items, LAMBDA it : it.property \in keys)
    IN  [i \in 1..Len(sel) |-> sel[i].title]

PlatformFinish ==
    /\ \E m \in 1..Len(migrations) :
          /\ migrations[m].workflow_state = "running"
          /\ \E result \in {"completed", "failed"} :
                /\ migrations' = [migrations EXCEPT ![m].workflow_state = result]
                /\ targetRubrics' =
                      IF result = "completed"
                      THEN [targetRubrics EXCEPT ![migrations[m].target] =
                               @ \o TitlesOf(srcItems, migrations[m].selected)]
                      ELSE targetRubrics
    /\ UNCHANGED <<args, srcItems, pc, idx, sis_ids, locals, obs>>
    /\ UNCHANGED <<assignVars, applyVars>>

NextImport ==
    \/ FindCourse
    \/ Snapshot
    \/ CreateMigration
    \/ ListItems
    \/ Filter
    \/ Trigger
    \/ Poll
    \/ MainDone
    \/ PlatformFinish

SpecImport == InitImport /\ [][NextImport]_vars

\* ------------------------------------------------------------------------
\* Properties of rubric_import.py
\* ------------------------------------------------------------------------
Range(f) == { f[i] : i \in DOMAIN f }
Requested(kind) == kind \in Range(reqs)
\* the case-insensitive substring test, stated on positions
ContainsCI(title, match) ==
    \E off \in 0..(Len(title) - Len(match)) :
        \A k \in 1..Len(match) : LowerC(title[off + k]) = LowerC(match[k])

\* C1: every item whose property key is in the trigger payload has a title
\* that contains the match substring case-insensitively and whose lower-cased
\* title (as it stands, and stripped) is not in the snapshot of target rubric
\* titles; the payload sent to the platform is that payload.
C1_PayloadFiltered ==
    /\ \A i \in 1..Len(rubric_items) :
          rubric_items[i].property \in copy_params =>
             /\ ContainsCI(rubric_items[i].title, rubric_match)
             /\ LowerS(rubric_items[i].title) \notin existing_titles
             /\ LowerS(StripS(rubric_items[i].title)) \notin existing_titles
    /\ (Requested("trigger") /\ outcome # "trigger_failed")
          => migrations[migration_id].selected = copy_params

\* a payload was sent that leaves out one item for each of the two tests
C1_Witness ==
    /\ Requested("trigger")
    /\ migrations[migration_id].selected # {}
    /\ \E i \in 1..Len(rubric_items) :
          /\ rubric_items[i].property \notin copy_params
          /\ ContainsCI(rubric_items[i].title, rubric_match)
          /\ LowerS(StripS(rubric_items[i].title)) \in existing_titles

\* C2: once a migration of a target course has completed, running the flow
\* again for that target with the same source items and match substring
\* yields an empty payload and issues no trigger request.
C2_RerunIsEmpty ==
    priorCompleted => (copy_params = {} /\ ~Requested("trigger") /\ pc # "trigger")

\* C3: when the listed items are none, or none matches, or every matching
\* item is in the snapshot, the flow ends without a trigger request and
\* without a progress read, and the migration stays unselected.
NothingToImport ==
    \A i \in 1..Len(rubric_items) :
        \/ ~ContainsCI(rubric_items[i].title, rubric_match)
        \/ LowerS(StripS(rubric_items[i].title)) \in existing_titles
ListedAndFiltered ==
    Requested("list") /\ raised # "list" /\ pc \notin {"list", "filter"}
C3_EmptySelectionSkips ==
    (ListedAndFiltered /\ NothingToImport) =>
        /\ ~Requested("trigger")
        /\ ~Requested("poll")
        /\ polls = 0
        /\ pc \in {"main_loop", "done"}
        /\ outcome \in {"no_items", "no_match", "all_exist"}
        /\ migrations[migration_id].workflow_state = "waiting_for_select"

\* a flow ended because every matching item was already in the snapshot
C3_Witness ==
    /\ ListedAndFiltered
    /\ NothingToImport
    /\ ~dry_run
    /\ matching # <<>>
    /\ outcome = "all_exist"

\* C5: a failure in one unit never keeps the remaining courses of the batch
\* from being processed, except a failure of the request that lists the
\* migration's selectable items.
C5_FailureIsolation ==
    (pc \in {"done", "crashed"} /\ raised # "list") => visited = DOMAIN sis_ids

\* C9: wait_for_completion is left only when the progress resource reports
\* completed or failed, and it returns exactly that state.
C9_PollExitsOnlyOnTerminal ==
    [][(pc = "poll" /\ pc' # "poll") =>
          /\ migrations[migration_id].workflow_state \in {"completed", "failed"}
          /\ outcome' = migrations[migration_id].workflow_state]_vars

\* C10: with no_wait set no progress read is ever issued, and after the
\* trigger request import_selected_rubrics has returned.
C10_NoWaitNeverPolls ==
    no_wait =>
        /\ pc # "poll"
        /\ polls = 0
        /\ ~Requested("poll")
        /\ Requested("trigger") => (pc \in {"main_loop", "done"} /\
                                      outcome \in {"no_wait", "trigger_failed"})

\* a fire-and-forget migration that the platform completed afterwards
C10_Witness ==
    /\ no_wait
    /\ outcome = "no_wait"
    /\ Requested("trigger")
    /\ migrations[migration_id].workflow_state = "completed"

\* ------------------------------------------------------------------------
\* auto_assign_rubrics.py : inputs
\* ------------------------------------------------------------------------
S_ABCD401 == <<"A","B","C","D","4","0","1","-","2">>
S_ABCD400 == <<"A","B","C","D","4","0","0","-","2">>
S_ABC401 == <<"A","B","C","4","0","1","-","2">>
S_xABCD999 == <<"x","A","B","C","D","9","9","9","-","1">>
SisIds == {S_ABCD401, S_ABCD400, S_ABC401, S_xABCD999}

R_PgEssay == <<"P","o","s","t","g","r","a","d","u","a","t","e"," ","E","s","s","a","y"," ","R","u","b","r","i","c">>
R_PgLab == <<"P","o","s","t","g","r","a","d","u","a","t","e"," ","L","a","b"," ","R","u","b","r","i","c">>
R_UgEssay == <<"U","n","d","e","r","g","r","a","d","u","a","t","e"," ","E","s","s","a","y"," ","R","u","b","r","i","c">>
R_UgESSAY == <<"U","n","d","e","r","g","r","a","d","u","a","t","e"," ","E","S","S","A","Y"," ","r","u","b","r","i","c">>
R_ugEssay == <<"u","n","d","e","r","g","r","a","d","u","a","t","e"," ","e","s","s","a","y"," ","r","u","b","r","i","c">>
R_Both == <<"P","o","s","t","g","r","a","d","u","a","t","e","/","U","n","d","e","r","g","r","a","d","u","a","t","e"," ","L","a","b">>
RubricTitles == {R_PgEssay, R_PgLab, R_UgEssay, R_UgESSAY, R_ugEssay, R_Both}

N_Essay1 == <<"E","s","s","a","y"," ","1">>
N_LabEssay == <<"L","a","b","-","r","e","p","o","r","t",":"," ","e","s","s","a","y"," ","l","a","b">>
N_Quiz == <<"Q","u","i","z">>
C_OldNotes == <<"O","l","d"," ","n","o","t","e","s"," ","(","2","0","2","4",")">>

\* rubrics as the platform lists them: an id and a title
RubricLists == { [i \in 1..Len(ts) |-> [id |-> i, title |-> ts[i]]] :
                    ts \in SeqsUpTo(RubricTitles, MaxRubrics) }

\* an assignment: rs_title and rs_rubric_title are rubric_settings["title"]
\* and rubric_settings["rubric_title"], Nothing when the key is absent
Assignment(id, name, online, due, t, rt) ==
    [id |-> id, name |-> name, online_upload |-> online, due_at |-> due,
     rs_title |-> t, rs_rubric_title |-> rt]

\* --threshold (argparse type=int)
Thresholds == {0, 1, 3}

\* ------------------------------------------------------------------------
\* auto_assign_rubrics.py : pure functions
\* ------------------------------------------------------------------------
\* numeric_code_from_sis: re.search(r"[A-Z]{4}(\d{3})-", sis_course_id),
\* the leftmost match
CodeAt(s, i) ==
    /\ i + 7 <= Len(s)
    /\ \A k \in 0..3 : IsUpper(s[i + k])
    /\ \A k \in 4..6 : IsDigit(s[i + k])
    /\ s[i + 7] = "-"
numeric_code_from_sis(sis_course_id) ==
    LET hits == {i \in 1..Len(sis_course_id) : CodeAt(sis_course_id, i)}
    IN  IF hits = {} THEN Nothing
        ELSE LET i == CHOOSE h \in hits : \A g \in hits : h <= g
             IN  Some(100 * DigitVal(sis_course_id[i + 4])
                      + 10 * DigitVal(sis_course_id[i + 5])
                      + DigitVal(sis_course_id[i + 6]))

\* level = "PG" if code and code > 400 else "UG"
\* mutant: the boundary code 400 counts as PG
LevelOf_Ge400(sis_course_id) ==
    LET code == numeric_code_from_sis(sis_course_id)
    IN  IF code # Nothing /\ Val(code) # 0 /\ Val(code) >= 400 THEN "PG" ELSE "UG"
LevelOf(sis_course_id) ==
    LET code == numeric_code_from_sis(sis_course_id)
    IN  IF code # Nothing /\ Val(code) # 0 /\ Val(code) > 400 THEN "PG" ELSE "UG"

M_Postgraduate == <<"P","o","s","t","g","r","a","d","u","a","t","e">>
M_Undergraduate == <<"U","n","d","e","r","g","r","a","d","u","a","t","e">>
Marker(level) == IF level = "PG" THEN M_Postgraduate ELSE M_Undergraduate

\* set(re.findall(r"[A-Za-z]+", s.lower())): the maximal runs of letters
\* mutant: the string is not lower-cased before the search
Words_NoLower(s) ==
    LET l == s
        starts == {i \in 1..Len(l) : IsAlpha(l[i]) /\ (i = 1 \/ ~IsAlpha(l[i - 1]))}
        ends == {j \in 1..Len(l) : IsAlpha(l[j]) /\ (j = Len(l) \/ ~IsAlpha(l[j + 1]))}
        EndOf(i) == CHOOSE j \in ends : j >= i /\ \A k \in ends : k >= i => j <= k
    IN  { SubSeq(l, i, EndOf(i)) : i \in starts }
Words(s) ==
    LET l == LowerS(s)
        starts == {i \in 1..Len(l) : IsAlpha(l[i]) /\ (i = 1 \/ ~IsAlpha(l[i - 1]))}
        ends == {j \in 1..Len(l) : IsAlpha(l[j]) /\ (j = Len(l) \/ ~IsAlpha(l[j + 1]))}
        EndOf(i) == CHOOSE j \in ends : j >= i /\ \A k \in ends : k >= i => j <= k
    IN  { SubSeq(l, i, EndOf(i)) : i \in starts }

word_overlap(a, b) == Cardinality(Words(a) \cap Words(b))

\* rubric_pool = [r for r in rubrics if (marker of the level) in r["title"]]
RubricPool(rubricList, level) ==
    SelectSeq(rubricList, LAMBDA r : Contains(r.title, Marker(level)))

\* scores.sort(key=lambda x: (-x[0], x[1]["title"].lower())): list.sort is
\* stable, entries with equal keys keep their order
\* mutant: the key is the score alone
KeyLess_ScoreOnly(x, y) == x.score > y.score
KeyLess(x, y) ==
    \/ x.score > y.score
    \/ x.score = y.score /\ StrLess(LowerS(x.r.title), LowerS(y.r.title))

InsertSorted(sorted, x) ==
    LET later == {i \in 1..Len(sorted) : KeyLess(x, sorted[i])}
        at == IF later = {} THEN Len(sorted) + 1
              ELSE CHOOSE i \in later : \A j \in later : i <= j
    IN  SubSeq(sorted, 1, at - 1) \o <<x>> \o SubSeq(sorted, at, Len(sorted))

RECURSIVE SortScores(_)
SortScores(scores) ==
    IF scores = <<>> THEN <<>>
    ELSE InsertSorted(SortScores(SubSeq(scores, 1, Len(scores) - 1)),
                      scores[Len(scores)])

guess_best_rubric(assignment, rubricList, sis_course_id) ==
    LET rubric_pool == RubricPool(rubricList, LevelOf(sis_course_id))
        scores == [i \in 1..Len(rubric_pool) |->
                     [score |-> word_overlap(assignment.name, rubric_pool[i].title),
                      r |-> rubric_pool[i]]]
    IN  IF rubric_pool = <<>> THEN Nothing
        ELSE Some(SortScores(scores)[1].r)

\* current_rubric = rubric_settings.get("title")
\*                  or rubric_settings.get("rubric_title") or ""
CurrentRubric(a) ==
    IF a.rs_title # Nothing /\ Val(a.rs_title) # <<>> THEN Val(a.rs_title)
    ELSE IF a.rs_rubric_title # Nothing /\ Val(a.rs_rubric_title) # <<>>
         THEN Val(a.rs_rubric_title)
    ELSE <<>>

\* main, lines 172-176: the decision and the overlap for a found best match
\* mutant: the overlap is taken against the assignment name
Classify_AgainstName(a, current, best_title, thr) ==
    IF current = <<>> THEN [decision |-> "ADD", overlap |-> 0]
    ELSE LET o == word_overlap(current, a.name)
         IN  [decision |-> IF o >= thr THEN "REPLACE" ELSE "SKIP", overlap |-> o]
Classify(a, current, best_title, thr) ==
    IF current = <<>> THEN [decision |-> "ADD", overlap |-> 0]
    ELSE LET o == word_overlap(current, best_title)
         IN  [decision |-> IF o >= thr THEN "REPLACE" ELSE "SKIP", overlap |-> o]

\* main, line 192: if decision in ["ADD", "REPLACE"] and best_title
\* mutant: every decision other than NO MATCH is applied
ShouldApply_NotNoMatch(d, best_title) == d # "NO MATCH" /\ best_title # <<>>
ShouldApply(d, best_title) == d \in {"ADD", "REPLACE"} /\ best_title # <<>>

\* rubric_map = {r["title"]: r["id"] for r in rubrics}: the last rubric of a
\* title wins; .get gives None for a missing title
RubricMapGet(rubricList, title) ==
    LET hits == {i \in 1..Len(rubricList) : rubricList[i].title = title}
    IN  IF hits = {} THEN Nothing
        ELSE Some(rubricList[CHOOSE i \in hits : \A j \in hits : j <= i].id)

\* upcoming: online_upload in submission_types, a due date, due after now
IsUpcoming(a) == a.online_upload /\ a.due_at # None /\ a.due_at = "future"

\* ------------------------------------------------------------------------
\* auto_assign_rubrics.py : the platform's courses
\* ------------------------------------------------------------------------
\* the rubrics and assignments of the course of each SIS id
CourseRubrics(sis) ==
    IF sis = S_ABCD401 THEN <<[id |-> 1, title |-> R_PgEssay], [id |-> 2, title |-> R_PgLab]>>
    ELSE IF sis = S_ABCD400 THEN <<[id |-> 3, title |-> R_PgEssay], [id |-> 4, title |-> R_UgEssay]>>
    ELSE IF sis = S_ABC401 THEN <<[id |-> 6, title |-> R_PgLab]>>
    ELSE <<[id |-> 7, title |-> R_Both], [id |-> 8, title |-> R_Both]>>

CourseAssignments(sis) ==
    IF sis = S_ABCD401
    THEN <<Assignment(11, N_Essay1, TRUE, "future", Nothing, Nothing),
           Assignment(12, N_LabEssay, TRUE, "future", Some(R_PgLab), Nothing)>>
    ELSE IF sis = S_ABCD400
    THEN <<Assignment(21, N_Quiz, FALSE, "future", Nothing, Nothing),
           Assignment(22, N_Essay1, TRUE, "future", Some(<<>>), Some(C_OldNotes))>>
    ELSE IF sis = S_ABC401
    THEN <<Assignment(31, N_Essay1, TRUE, "future", Nothing, Nothing),
           Assignment(32, N_Essay1, TRUE, "past", Nothing, Nothing)>>
    ELSE <<Assignment(41, N_Essay1, TRUE, None, Nothing, Nothing),
           Assignment(42, N_LabEssay, TRUE, "future", Nothing, Nothing)>>

\* the platform id of the course of a SIS id
CourseIdOf(sis) ==
    IF sis = S_ABCD401 THEN 101
    ELSE IF sis = S_ABCD400 THEN 102
    ELSE IF sis = S_ABC401 THEN 103
    ELSE 104

\* ------------------------------------------------------------------------
\* apply_rubric (auto_assign_rubrics.py and apply_decisions.py)
\* ------------------------------------------------------------------------
\* whether apply_rubric sends the POST: if dry_run: return True comes first
\* mutant: the dry-run exit is missing
ApplySends_Always(dry) == TRUE
ApplySends(dry) == ~dry

\* the result of apply_rubric for a response status
\* mutant: only 200 counts as success
ApplyResult_Only200(dry, status) == dry \/ status = 200
ApplyResult(dry, status) == dry \/ status \in {200, 201}

\* response statuses of the association request
Statuses == {200, 201, 400}

\* the effect of one call apply_rubric(course, assignment, rubric, dry_run)
ApplyRubric(course, assignment, rubric) ==
    /\ applyCalls' = Append(applyCalls,
          [course |-> course, assignment |-> assignment, rubric |-> rubric])
    /\ IF ApplySends(dry_run)
       THEN \E status \in Statuses :
               /\ assocReqs' = Append(assocReqs,
                     [course |-> course, assignment |-> assignment,
                      rubric |-> rubric, status |-> status])
               /\ success' = Some(ApplyResult(dry_run, status))
       ELSE /\ assocReqs' = assocReqs
            /\ success' = Some(ApplyResult(dry_run, 0))

\* ------------------------------------------------------------------------
\* auto_assign_rubrics.py : main
\* ------------------------------------------------------------------------
InitAssign ==
    /\ IdleImport
    /\ IdleApply
    /\ dry_run \in BOOLEAN
    /\ sis_ids \in [1..MaxBatch -> SisIds]
    /\ threshold \in {1, 3}
    /\ log_arg \in BOOLEAN
    /\ pc = "aa_loop"
    /\ idx = 1
    /\ AssignLocalsInit

\* the next sis_id of the loop (continue, or the end of the body)
AA_NextCourse ==
    /\ pc' = "aa_loop"
    /\ idx' = idx + 1

\* the next assignment of upcoming, or the end of the course
AA_NextAssignment ==
    IF aidx < Len(upcoming)
    THEN /\ aidx' = aidx + 1
         /\ pc' = "aa_guess"
         /\ idx' = idx
    ELSE /\ aidx' = aidx
         /\ AA_NextCourse

\* course_id = find_course_by_sis_id(sis_id)
AA_FindCourse ==
    /\ pc = "aa_loop"
    /\ idx <= Len(sis_ids)
    /\ \E found \in BOOLEAN :
          IF found
          THEN /\ course_id' = CourseIdOf(sis_ids[idx])
               /\ pc' = "aa_rubrics"
               /\ idx' = idx
          ELSE /\ course_id' = None
               /\ AA_NextCourse
    /\ UNCHANGED <<args, platform, sis_ids, locals, obs, applyVars,
                   threshold, log_arg, rubrics, upcoming, aidx, current_rubric,
                   best, decision, overlap, decisions, rubric_id, success,
                   logFile, assocReqs, applyCalls>>

\* rubrics = get_rubrics(course_id); if not rubrics: continue
AA_GetRubrics ==
    /\ pc = "aa_rubrics"
    /\ \E got \in GetRubricsResults(CourseRubrics(sis_ids[idx])) :
          /\ rubrics' = got
          /\ IF got = <<>>
             THEN AA_NextCourse
             ELSE pc' = "aa_assignments" /\ idx' = idx
    /\ UNCHANGED <<args, platform, sis_ids, locals, obs, applyVars,
                   threshold, log_arg, course_id, upcoming, aidx, current_rubric,
                   best, decision, overlap, decisions, rubric_id, success,
                   logFile, assocReqs, applyCalls>>

\* assignments = get_assignments(course_id); upcoming = [...]
AA_GetAssignments ==
    /\ pc = "aa_assignments"
    /\ \E got \in GetRubricsResults(CourseAssignments(sis_ids[idx])) :
          /\ upcoming' = SelectSeq(got, IsUpcoming)
          /\ aidx' = 1
          /\ IF upcoming' = <<>>
             THEN AA_NextCourse
             ELSE pc' = "aa_guess" /\ idx' = idx
    /\ UNCHANGED <<args, platform, sis_ids, locals, obs, applyVars,
                   threshold, log_arg, course_id, rubrics, current_rubric,
                   best, decision, overlap, decisions, rubric_id, success,
                   logFile, assocReqs, applyCalls>>

\* main, lines 157-170: current_rubric, best, and the exit without a best
AA_Guess ==
    /\ pc = "aa_guess"
    /\ current_rubric' = CurrentRubric(upcoming[aidx])
    /\ best' = guess_best_rubric(upcoming[aidx], rubrics, sis_ids[idx])
    /\ decision' = "NO MATCH"
    /\ overlap' = 0
    /\ IF best' = Nothing
       THEN AA_NextAssignment
       ELSE pc' = "aa_classify" /\ UNCHANGED <<idx, aidx>>
    /\ UNCHANGED <<args, platform, sis_ids, locals, obs, applyVars,
                   threshold, log_arg, course_id, rubrics, upcoming,
                   decisions, rubric_id, success, logFile, assocReqs, applyCalls>>

\* main, lines 172-192: the decision, the record, and whether to apply
AA_Classify ==
    /\ pc = "aa_classify"
    /\ LET c == Classify(upcoming[aidx], current_rubric, Val(best).title, threshold)
       IN  /\ decision' = c.decision
           /\ overlap' = c.overlap
           /\ decisions' = Append(decisions,
                 [sis_course_id |-> sis_ids[idx],
                  assignment |-> upcoming[aidx].name,
                  current_rubric |-> current_rubric,
                  suggested_rubric |-> Val(best).title,
                  overlap |-> c.overlap,
                  decision |-> c.decision])
           /\ IF ShouldApply(c.decision, Val(best).title)
              THEN pc' = "aa_apply" /\ UNCHANGED <<idx, aidx>>
              ELSE AA_NextAssignment
    /\ UNCHANGED <<args, platform, sis_ids, locals, obs, applyVars,
                   threshold, log_arg, course_id, rubrics, upcoming,
                   current_rubric, best, rubric_id, success, logFile,
                   assocReqs, applyCalls>>

\* main, lines 193-202: rubric_id = rubric_map.get(best_title); apply_rubric
AA_Apply ==
    /\ pc = "aa_apply"
    /\ rubric_id' = RubricMapGet(rubrics, Val(best).title)
    /\ IF rubric_id' # Nothing
       THEN ApplyRubric(course_id, upcoming[aidx].id, Val(rubric_id'))
       ELSE /\ success' = Some(FALSE)
            /\ UNCHANGED <<assocReqs, applyCalls>>
    /\ AA_NextAssignment
    /\ UNCHANGED <<args, platform, sis_ids, locals, obs, applyVars,
                   threshold, log_arg, course_id, rubrics, upcoming,
                   current_rubric, best, decision, overlap, decisions, logFile>>

\* main, lines 206-214: the loop is over, the decision log is written
AA_Finish ==
    /\ pc = "aa_loop"
    /\ idx > Len(sis_ids)
    /\ logFile' = IF log_arg THEN Some(decisions) ELSE Nothing
    /\ pc' = "aa_done"
    /\ UNCHANGED <<args, platform, sis_ids, idx, locals, obs, applyVars,
                   threshold, log_arg, course_id, rubrics, upcoming, aidx,
                   current_rubric, best, decision, overlap, decisions,
                   rubric_id, success, assocReqs, applyCalls>>

NextAssign ==
    \/ AA_FindCourse
    \/ AA_GetRubrics
    \/ AA_GetAssignments
    \/ AA_Guess
    \/ AA_Classify
    \/ AA_Apply
    \/ AA_Finish

SpecAssign == InitAssign /\ [][NextAssign]_vars

\* ------------------------------------------------------------------------
\* The matching and classification steps of main on one assignment, for
\* every rubric list, assignment, SIS id and threshold of the bounded sets
\* ------------------------------------------------------------------------
MatchAssignments ==
    { Assignment(1, n, TRUE, "future", t, rt) :
        n \in {N_Essay1, N_LabEssay},
        t \in {Nothing, Some(<<>>), Some(R_UgEssay)},
        rt \in {Nothing, Some(R_PgLab)} }

InitMatch ==
    /\ IdleImport
    /\ IdleApply
    /\ dry_run = TRUE
    /\ \E sis \in SisIds : sis_ids = <<sis>>
    /\ threshold \in Thresholds
    /\ log_arg = FALSE
    /\ pc = "aa_guess"
    /\ idx = 1
    /\ course_id = CourseIdOf(sis_ids[1])
    /\ rubrics \in RubricLists
    /\ \E a \in MatchAssignments : upcoming = <<a>>
    /\ aidx = 1
    /\ current_rubric = <<>>
    /\ best = Nothing
    /\ decision = None
    /\ overlap = 0
    /\ decisions = <<>>
    /\ rubric_id = Nothing
    /\ success = Nothing
    /\ logFile = Nothing
    /\ assocReqs = <<>>
    /\ applyCalls = <<>>

NextMatch ==
    \/ AA_Guess
    \/ AA_Classify

SpecMatch == InitMatch /\ [][NextMatch]_vars

\* ------------------------------------------------------------------------
\* apply_decisions.py
\* ------------------------------------------------------------------------
D_ADD == <<"A","D","D">>
D_REPLACE == <<"R","E","P","L","A","C","E">>
D_replace_sp == <<" ","r","e","p","l","a","c","e"," ">>
D_SKIP == <<"S","K","I","P">>
D_NOMATCH == <<"N","O"," ","M","A","T","C","H">>
N_LabEssay_sp == <<" ","L","a","b","-","r","e","p","o","r","t",":"," ","e","s","s","a","y"," ","l","a","b"," ">>

Row(sis, name, title, d) ==
    [sis_course_id |-> sis, assignment |-> name, suggested_rubric |-> title,
     decision |-> d]

\* rows of a decisions file, as written by auto_assign_rubrics.py and edited
DecisionRows ==
    { Row(S_ABCD401, N_Essay1, R_PgEssay, D_ADD),
      Row(S_ABCD401, N_LabEssay_sp, R_PgLab, D_replace_sp),
      Row(S_ABCD400, N_Essay1, R_UgEssay, D_SKIP),
      Row(S_ABC401, N_Essay1, R_PgEssay, D_ADD),
      Row(S_ABCD400, N_LabEssay, R_UgEssay, D_REPLACE),
      Row(S_ABC401, N_Essay1, <<>>, D_NOMATCH) }

\* r["decision"].strip().upper() in ["ADD", "REPLACE"]
IsActionable(r) == UpperS(StripS(r.decision)) \in {D_ADD, D_REPLACE}

\* [a for a in assignments if a["name"].strip() == assignment_name.strip()]
MatchingAssignments(assignments, assignment_name) ==
    SelectSeq(assignments, LAMBDA a : StripS(a.name) = StripS(assignment_name))

InitApply ==
    /\ IdleImport
    /\ IdleAssign
    /\ dry_run \in BOOLEAN
    /\ sis_ids = <<>>
    /\ rows \in SeqsUpTo(DecisionRows, MaxRows)
    /\ actionable = <<>>
    /\ assignment_id = Nothing
    /\ pc = "ad_start"
    /\ idx = 1

\* continue, or the end of the loop body
AD_NextRow ==
    /\ pc' = "ad_loop"
    /\ idx' = idx + 1

\* main, line 104: actionable = [r for r in rows if ...]
AD_Load ==
    /\ pc = "ad_start"
    /\ actionable' = SelectSeq(rows, IsActionable)
    /\ pc' = "ad_loop"
    /\ UNCHANGED <<args, platform, sis_ids, idx, locals, obs, assignVars,
                   rows, assignment_id>>

\* course_id = find_course_by_sis_id(sis_id)
AD_FindCourse ==
    /\ pc = "ad_loop"
    /\ idx <= Len(actionable)
    /\ \E found \in BOOLEAN :
          IF found
          THEN /\ course_id' = CourseIdOf(actionable[idx].sis_course_id)
               /\ pc' = "ad_rubric"
               /\ idx' = idx
          ELSE /\ course_id' = None
               /\ AD_NextRow
    /\ UNCHANGED <<args, platform, sis_ids, locals, obs, applyVars,
                   threshold, log_arg, rubrics, upcoming, aidx, current_rubric,
                   best, decision, overlap, decisions, rubric_id, success,
                   logFile, assocReqs, applyCalls>>

\* rubrics = get_rubrics(course_id); rubric_id = rubric_map.get(rubric_title)
AD_LookupRubric ==
    /\ pc = "ad_rubric"
    /\ \E got \in GetRubricsResults(CourseRubrics(actionable[idx].sis_course_id)) :
          /\ rubrics' = got
          /\ rubric_id' = RubricMapGet(got, actionable[idx].suggested_rubric)
    /\ IF rubric_id' = Nothing
       THEN AD_NextRow
       ELSE pc' = "ad_assignment" /\ idx' = idx
    /\ UNCHANGED <<args, platform, sis_ids, locals, obs, applyVars,
                   threshold, log_arg, course_id, upcoming, aidx, current_rubric,
                   best, decision, overlap, decisions, success,
                   logFile, assocReqs, applyCalls>>

\* assignments = get_assignments(course_id); matching_assignments
AD_FindAssignment ==
    /\ pc = "ad_assignment"
    /\ \E got \in GetRubricsResults(CourseAssignments(actionable[idx].sis_course_id)) :
          LET matching_assignments ==
                 MatchingAssignments(got, actionable[idx].assignment)
          IN  IF matching_assignments = <<>>
              THEN /\ assignment_id' = Nothing
                   /\ AD_NextRow
              ELSE /\ assignment_id' = Some(matching_assignments[1].id)
                   /\ pc' = "ad_apply"
                   /\ idx' = idx
    /\ UNCHANGED <<args, platform, sis_ids, locals, obs, assignVars,
                   rows, actionable>>

\* success = apply_rubric(course_id, a["id"], rubric_id, dry_run=args.dry_run)
AD_Apply ==
    /\ pc = "ad_apply"
    /\ ApplyRubric(course_id, Val(assignment_id), Val(rubric_id))
    /\ AD_NextRow
    /\ UNCHANGED <<args, platform, sis_ids, locals, obs, applyVars,
                   threshold, log_arg, course_id, rubrics, upcoming, aidx,
                   current_rubric, best, decision, overlap, decisions,
                   rubric_id, logFile>>

\* the loop over actionable is exhausted
AD_Done ==
    /\ pc = "ad_loop"
    /\ idx > Len(actionable)
    /\ pc' = "ad_done"
    /\ UNCHANGED <<args, platform, sis_ids, idx, locals, obs, assignVars, applyVars>>

NextApply ==
    \/ AD_Load
    \/ AD_FindCourse
    \/ AD_LookupRubric
    \/ AD_FindAssignment
    \/ AD_Apply
    \/ AD_Done

SpecApply == InitApply /\ [][NextApply]_vars

\* ------------------------------------------------------------------------
\* The three scripts
\* ------------------------------------------------------------------------
Init == InitImport \/ InitAssign \/ InitApply

Next == NextImport \/ NextAssign \/ NextApply

Spec == Init /\ [][Next]_vars

\* ------------------------------------------------------------------------
\* Properties of the three scripts together
\* ------------------------------------------------------------------------
\* C4: with dry-run set no association request and no trigger request is
\* ever issued, while apply_rubric is still called for every ADD/REPLACE
\* decision, the decision and the suggestion are those the classification
\* gives for what was read, and the migration flow reads and filters up to
\* the point where the trigger would be sent.
C4_DryRunSendsNothing ==
    /\ dry_run =>
          /\ assocReqs = <<>>
          /\ ~Requested("trigger")
          /\ pc \notin {"trigger", "poll"}
          /\ \A m \in 1..Len(migrations) :
                migrations[m].workflow_state = "waiting_for_select"
          /\ success \in {Nothing, Some(TRUE)}
    /\ ~dry_run => Len(assocReqs) = Len(applyCalls)
    /\ outcome = "dry_run" =>
          /\ dry_run
          /\ reqs = <<"find", "rubrics", "create", "list">>
          /\ new_rubrics # <<>>
          /\ new_rubrics = NewRubrics(Matching(rubric_items, rubric_match),
                                      existing_titles)
    /\ pc = "aa_apply" =>
          /\ best = guess_best_rubric(upcoming[aidx], rubrics, sis_ids[idx])
          /\ decision = Classify(upcoming[aidx], current_rubric,
                                 Val(best).title, threshold).decision
          /\ decision \in {"ADD", "REPLACE"}

\* a dry run reached apply_rubric for an ADD or REPLACE decision
C4_Witness ==
    /\ dry_run
    /\ decision \in {"ADD", "REPLACE"}
    /\ applyCalls # <<>>
    /\ assocReqs = <<>>
    /\ success = Some(TRUE)

\* ------------------------------------------------------------------------
\* Properties of matching and classification
\* ------------------------------------------------------------------------
\* the assignment being evaluated and its course
TheAssignment == upcoming[1]
TheSis == sis_ids[1]
Guessed == pc # "aa_guess"
Classified == pc \notin {"aa_guess", "aa_classify"} /\ best # Nothing
TitleAbsentOrEmpty(o) == o = Nothing \/ Val(o) = <<>>

\* C6: no best match gives NO MATCH whatever the current title; otherwise
\* an empty or absent current title gives ADD; otherwise the decision is
\* REPLACE exactly when word_overlap(current title, suggested title) is at
\* least the threshold and SKIP exactly when it is below.
C6_DecisionClassification ==
    /\ (Guessed /\ best = Nothing) => decision = "NO MATCH"
    /\ Guessed =>
          ((TitleAbsentOrEmpty(TheAssignment.rs_title)
              /\ TitleAbsentOrEmpty(TheAssignment.rs_rubric_title))
           <=> current_rubric = <<>>)
    /\ Classified =>
          /\ decision \in {"ADD", "REPLACE", "SKIP"}
          /\ current_rubric = <<>> => decision = "ADD"
          /\ current_rubric # <<>> =>
                /\ decision = "REPLACE" <=>
                      word_overlap(current_rubric, Val(best).title) >= threshold
                /\ decision = "SKIP" <=>
                      word_overlap(current_rubric, Val(best).title) < threshold
                /\ overlap = word_overlap(current_rubric, Val(best).title)

\* a REPLACE decided by the overlap with the suggested title although the
\* current title shares fewer than threshold words with the assignment name
C6_Witness ==
    /\ Classified
    /\ decision = "REPLACE"
    /\ threshold >= 1
    /\ word_overlap(current_rubric, TheAssignment.name) < threshold

\* the rubrics of the course whose title carries the marker of its level
PoolOf(rubricList, sis) ==
    { rubricList[i] : i \in {k \in 1..Len(rubricList) :
                               Contains(rubricList[k].title, Marker(LevelOf(sis)))} }
ScoreOf(r) == word_overlap(TheAssignment.name, r.title)

\* C7: guess_best_rubric gives none exactly when the level-restricted pool
\* is empty; otherwise a rubric of the pool with the maximal word-overlap
\* score (zero included), and among those of that score one whose
\* lower-cased title is smallest.
C7_BestIsMaxThenSmallestTitle ==
    Guessed =>
        /\ best = Nothing <=> PoolOf(rubrics, TheSis) = {}
        /\ best # Nothing =>
              /\ Val(best) \in PoolOf(rubrics, TheSis)
              /\ \A r \in PoolOf(rubrics, TheSis) :
                    /\ ScoreOf(r) <= ScoreOf(Val(best))
                    /\ ScoreOf(r) = ScoreOf(Val(best)) =>
                          ~StrLess(LowerS(r.title), LowerS(Val(best).title))

\* the best match ties on score with an earlier rubric of the list and wins
\* by its title; the score is zero
C7_Witness ==
    /\ Guessed
    /\ best # Nothing
    /\ ScoreOf(Val(best)) = 0
    /\ Len(rubrics) >= 2
    /\ rubrics[1] \in PoolOf(rubrics, TheSis)
    /\ rubrics[1] # Val(best)
    /\ ScoreOf(rubrics[1]) = 0
    /\ StrLess(LowerS(Val(best).title), LowerS(rubrics[1].title))

\* the three-digit code of a SIS id: four capitals, three digits, a dash,
\* at the leftmost place where they occur
HasCodeAt(s, i) ==
    /\ i + 7 <= Len(s)
    /\ {s[i], s[i + 1], s[i + 2], s[i + 3]} \subseteq UpperSet
    /\ {s[i + 4], s[i + 5], s[i + 6]} \subseteq DigitSet
    /\ s[i + 7] = "-"
CodeAbove400(s) ==
    \E i \in 1..Len(s) :
        /\ HasCodeAt(s, i)
        /\ \A j \in 1..(i - 1) : ~HasCodeAt(s, j)
        /\ 100 * DigitVal(s[i + 4]) + 10 * DigitVal(s[i + 5]) + DigitVal(s[i + 6]) > 400
LevelMarker(s) == IF CodeAbove400(s) THEN M_Postgraduate ELSE M_Undergraduate

\* C8: a course with a code above 400 is PG, any other course is UG; the
\* rubric suggested for an assignment is one of the rubrics of that course
\* and its title contains the marker of the course's level.
C8_SuggestionOfCourseLevel ==
    /\ LevelOf(TheSis) = (IF CodeAbove400(TheSis) THEN "PG" ELSE "UG")
    /\ (Guessed /\ best # Nothing) =>
          /\ \E i \in 1..Len(rubrics) : rubrics[i] = Val(best)
          /\ Contains(Val(best).title, LevelMarker(TheSis))
    /\ \A i \in 1..Len(decisions) :
          /\ \E k \in 1..Len(rubrics) : rubrics[k].title = decisions[i].suggested_rubric
          /\ Contains(decisions[i].suggested_rubric, LevelMarker(decisions[i].sis_course_id))

\* a course of code 400 gets an Undergraduate rubric although a rubric of
\* the other level is in its list
C8_Witness ==
    /\ TheSis = S_ABCD400
    /\ Guessed
    /\ best # Nothing
    /\ decisions # <<>>
    /\ \E i \in 1..Len(rubrics) : ~Contains(rubrics[i].title, M_Undergraduate)

\* ------------------------------------------------------------------------
\* Properties of the association requests
\* ------------------------------------------------------------------------
AssignRunning ==
    pc \in {"aa_loop", "aa_rubrics", "aa_assignments", "aa_guess",
            "aa_classify", "aa_apply", "aa_done"}
ReplayRunning ==
    pc \in {"ad_start", "ad_loop", "ad_rubric", "ad_assignment", "ad_apply",
            "ad_done"}
\* a decision text that stands for ADD or REPLACE
IsAddOrReplace(d) == \E k \in {D_ADD, D_REPLACE} : UpperS(StripS(d)) = k
\* the request associates a rubric of that title with an assignment of that
\* name in the course of that SIS id
RequestFor(req, sis, name, title) ==
    /\ req.course = CourseIdOf(sis)
    /\ \E i \in 1..Len(CourseRubrics(sis)) :
          /\ CourseRubrics(sis)[i].title = title
          /\ CourseRubrics(sis)[i].id = req.rubric
    /\ \E i \in 1..Len(CourseAssignments(sis)) :
          /\ StripS(CourseAssignments(sis)[i].name) = StripS(name)
          /\ CourseAssignments(sis)[i].id = req.assignment
\* strictly increasing maps of 1..n into 1..m
Increasing(n, m) ==
    { f \in [1..n -> 1..m] : \A i, j \in 1..n : i < j => f[i] < f[j] }
AddReplaceDecisions ==
    SelectSeq(decisions, LAMBDA d : d.decision \in {"ADD", "REPLACE"})

\* C11: the association requests are, in order, requests for distinct ADD or
\* REPLACE decisions, one request at most for each, whatever the response
\* was; a SKIP or NO MATCH decision has none. In the live auto-assign run
\* every ADD or REPLACE decision whose iteration has ended has exactly one.
C11_AssociationCallsPerDecision ==
    /\ AssignRunning =>
          LET ended == Len(AddReplaceDecisions) - (IF pc = "aa_apply" THEN 1 ELSE 0)
          IN  /\ Len(assocReqs) <= ended
              /\ ~dry_run => Len(assocReqs) = ended
              /\ \A i \in 1..Len(assocReqs) :
                    RequestFor(assocReqs[i], AddReplaceDecisions[i].sis_course_id,
                               AddReplaceDecisions[i].assignment,
                               AddReplaceDecisions[i].suggested_rubric)
    /\ ReplayRunning =>
          /\ Len(assocReqs) <= idx - 1
          /\ ~dry_run => Len(assocReqs) = Len(applyCalls)
          /\ \E f \in Increasing(Len(assocReqs), Len(rows)) :
                \A i \in 1..Len(assocReqs) :
                    /\ IsAddOrReplace(rows[f[i]].decision)
                    /\ RequestFor(assocReqs[i], rows[f[i]].sis_course_id,
                                  rows[f[i]].assignment, rows[f[i]].suggested_rubric)

\* a live auto-assign run ended with an assignment without a candidate, an
\* ADD whose only request was refused, and a SKIP
C11_Witness ==
    /\ pc = "aa_done"
    /\ ~dry_run
    /\ sis_ids = <<S_ABC401, S_ABCD401>>
    /\ Len(decisions) = 2
    /\ decisions[1].decision = "ADD"
    /\ decisions[2].decision = "SKIP"
    /\ Len(assocReqs) = 1
    /\ assocReqs[1].status = 400

\* C12: in preview mode apply_rubric sends nothing and gives success; in
\* live mode every call sends exactly one association request, for the
\* course, assignment and rubric it was called with, and gives success
\* exactly when the response status is 200 or 201.
C12_ApplyRubricResult ==
    /\ dry_run =>
          /\ assocReqs = <<>>
          /\ applyCalls # <<>> => success = Some(TRUE)
    /\ ~dry_run =>
          /\ Len(assocReqs) = Len(applyCalls)
          /\ \A i \in 1..Len(applyCalls) :
                /\ assocReqs[i].course = applyCalls[i].course
                /\ assocReqs[i].assignment = applyCalls[i].assignment
                /\ assocReqs[i].rubric = applyCalls[i].rubric
          /\ applyCalls # <<>> =>
                success = Some(assocReqs[Len(assocReqs)].status \in {200, 201})

\* a live replay whose first call was answered 201 and whose second call
\* was answered 400
C12_Witness ==
    /\ ReplayRunning
    /\ ~dry_run
    /\ Len(applyCalls) = 2
    /\ assocReqs[1].status = 201
    /\ assocReqs[2].status = 400
    /\ success = Some(FALSE)

\* ------------------------------------------------------------------------
\* word_overlap on its own: the call of line 175 for every pair of strings
\* of a bounded set
\* ------------------------------------------------------------------------
W_Essay1Reflection == <<"E","s","s","a","y"," ","1",":"," ","R","e","f","l","e","c","t","i","o","n">>
W_UgReflection == <<"U","n","d","e","r","g","r","a","d","u","a","t","e"," ","R","e","f","l","e","c","t","i","o","n"," ","R","u","b","r","i","c">>
W_ESSAYessay == <<"E","S","S","A","Y"," ","e","s","s","a","y"," ","2","/","l","a","b">>
W_lab2lab == <<"l","a","b","2","l","a","b"," ","(","L","a","b",")">>
W_Digits == <<"2","0","2","4","-","2","5">>
W_reflectionEssay == <<"r","e","f","l","e","c","t","i","o","n",":","e","s","s","a","y">>
W_Rubrics == <<"R","u","b","r","i","c","-","r","u","b","r","i","c"," ","R","U","B","R","I","C">>
OverlapStrings ==
    { <<>>, R_PgLab, N_LabEssay, W_Essay1Reflection, W_UgReflection, W_ESSAYessay, W_lab2lab, W_Digits, W_reflectionEssay, W_Rubrics }

InitOverlap ==
    /\ IdleImport
    /\ IdleApply
    /\ dry_run = TRUE
    /\ sis_ids = <<>>
    /\ threshold = 1
    /\ log_arg = FALSE
    /\ pc = "wo_call"
    /\ idx = 1
    /\ course_id = None
    /\ rubrics = <<>>
    /\ upcoming = <<>>
    /\ aidx = 1
    /\ current_rubric \in OverlapStrings
    /\ \E title \in OverlapStrings : best = Some([id |-> 1, title |-> title])
    /\ decision = None
    /\ overlap = 0
    /\ decisions = <<>>
    /\ rubric_id = Nothing
    /\ success = Nothing
    /\ logFile = Nothing
    /\ assocReqs = <<>>
    /\ applyCalls = <<>>

\* overlap = word_overlap(current_rubric or "", best_title or "")
WordOverlapCall ==
    /\ pc = "wo_call"
    /\ overlap' = word_overlap(current_rubric, Val(best).title)
    /\ pc' = "wo_done"
    /\ UNCHANGED <<args, platform, sis_ids, idx, locals, obs, applyVars,
                   threshold, log_arg, course_id, rubrics, upcoming, aidx,
                   current_rubric, best, decision, decisions, rubric_id,
                   success, logFile, assocReqs, applyCalls>>

NextOverlap == WordOverlapCall

SpecOverlap == InitOverlap /\ [][NextOverlap]_vars

\* the lower-cased maximal runs of letters of a string
IsToken(s, i, j) ==
    /\ 1 <= i /\ i <= j /\ j <= Len(s)
    /\ \A k \in i..j : s[k] \in UpperSet \cup LowerSet
    /\ i > 1 => s[i - 1] \notin UpperSet \cup LowerSet
    /\ j < Len(s) => s[j + 1] \notin UpperSet \cup LowerSet
Tokens(s) ==
    { [k \in 1..(ij[2] - ij[1] + 1) |-> LowerC(s[ij[1] + k - 1])] :
        ij \in { p \in (1..Len(s)) \X (1..Len(s)) : IsToken(s, p[1], p[2]) } }
\* every character that is not a letter replaced by c
Separated(s, c) ==
    [i \in 1..Len(s) |-> IF s[i] \in UpperSet \cup LowerSet THEN s[i] ELSE c]
OverlapA == current_rubric
OverlapB == Val(best).title

\* C13: word_overlap(a, b) is the number of distinct lower-cased tokens of
\* letters that occur in both strings; it is the same with the arguments
\* exchanged, with the case of either string changed, with every separator
\* replaced by a blank or by a digit, and with a string repeated; it never
\* exceeds the number of distinct tokens of either string.
C13_WordOverlap ==
    pc = "wo_done" =>
        /\ overlap = Cardinality(Tokens(OverlapA) \cap Tokens(OverlapB))
        /\ overlap = word_overlap(OverlapB, OverlapA)
        /\ overlap = word_overlap(UpperS(OverlapA), OverlapB)
        /\ overlap = word_overlap(OverlapA, LowerS(OverlapB))
        /\ overlap = word_overlap(Separated(OverlapA, " "), Separated(OverlapB, "7"))
        /\ overlap = word_overlap(OverlapA \o <<"-">> \o OverlapA, OverlapB)
        /\ overlap <= Cardinality(Tokens(OverlapA))
        /\ overlap <= Cardinality(Tokens(OverlapB))

\* two strings that share one word, written in different case and repeated
\* in one of them, among digits and punctuation
C13_Witness ==
    /\ pc = "wo_done"
    /\ OverlapA = W_ESSAYessay
    /\ OverlapB = W_Essay1Reflection
    /\ overlap = 1

\* ------------------------------------------------------------------------
\* Further properties of rubric_import.py
\* ------------------------------------------------------------------------
StepOrder == <<"find", "rubrics", "create", "list", "trigger">>
TriggerAccepted ==
    migrations[migration_id].workflow_state \in {"running", "completed", "failed"}

\* C14: the requests of one target course are issued in the order snapshot
\* read, create, list, trigger, progress reads, none of the first four more
\* than once; list follows a successful create only, trigger a successful
\* list with a surviving item only, a progress read a successful trigger
\* only; a refused create or trigger is the last request of the course.
C14_StepOrder ==
    /\ \A i \in 1..Len(reqs) :
          IF i <= Len(StepOrder) THEN reqs[i] = StepOrder[i] ELSE reqs[i] = "poll"
    /\ Requested("list") =>
          /\ Len(migrations) >= 1
          /\ migrations[migration_id].target = target_id
          /\ outcome # "create_failed"
    /\ Requested("trigger") =>
          /\ raised # "list"
          /\ rubric_items # <<>>
          /\ new_rubrics # <<>>
          /\ copy_params # {}
    /\ (Requested("poll") \/ pc = "poll") =>
          /\ Requested("trigger")
          /\ TriggerAccepted
    /\ outcome = "create_failed" =>
          /\ reqs = <<"find", "rubrics", "create">>
          /\ migration_id = None
          /\ pc \in {"main_loop", "done"}
    /\ outcome = "trigger_failed" =>
          /\ reqs = StepOrder
          /\ migrations[migration_id].workflow_state = "waiting_for_select"
          /\ pc \in {"main_loop", "done"}

\* a migration went through every step and was seen to complete at the
\* second progress read
C14_Witness ==
    /\ reqs = StepOrder \o <<"poll", "poll">>
    /\ outcome = "completed"

\* the list request of the current course was issued and gave no items
\* although the source course has some
ListFailed ==
    /\ Requested("list")
    /\ pc # "list"
    /\ srcItems # <<>>
    /\ rubric_items = <<>>

\* C16: a failed list request leaves main at once: the failing course gets
\* no trigger and its migration stays unselected, and no later course of
\* the batch is started; after an empty list the course ends and the loop
\* goes on, and a run that was not halted has started every course.
C16_ListingFailureHalts ==
    /\ (ListFailed \/ raised = "list") =>
          /\ raised = "list"
          /\ pc = "crashed"
          /\ visited = 1..idx
          /\ reqs = <<"find", "rubrics", "create", "list">>
          /\ migrations[migration_id].workflow_state = "waiting_for_select"
    /\ outcome = "no_items" =>
          /\ raised = None
          /\ pc \in {"main_loop", "done"}
          /\ visited = 1..(idx - 1)
          /\ reqs = <<"find", "rubrics", "create", "list">>
    /\ pc = "main_loop" => (raised = None /\ visited = 1..(idx - 1))
    /\ pc = "done" => (raised = None /\ visited = DOMAIN sis_ids)

\* the list request of the first of two courses failed
C16_Witness ==
    /\ raised = "list"
    /\ pc = "crashed"
    /\ idx = 1
    /\ Len(sis_ids) = 2
    /\ visited = {1}

\* the ways import_selected_rubrics ends after a create without a trigger
\* that was accepted
UntriggeredExits == {"no_items", "no_match", "all_exist", "dry_run", "trigger_failed"}

\* C17: no request cancels or removes a migration; when the flow of a
\* course ends after its create without an accepted trigger, the migration
\* it created is still waiting_for_select, and so is every migration that
\* was never selected; a dry run issues the create request for every target
\* course it finds.
C17_UntriggeredJobStays ==
    /\ Range(reqs) \subseteq {"find", "rubrics", "create", "list", "trigger", "poll"}
    /\ outcome \in UntriggeredExits =>
          /\ Requested("create")
          /\ migrations[migration_id].target = target_id
          /\ migrations[migration_id].workflow_state = "waiting_for_select"
    /\ \A m \in 1..Len(migrations) :
          migrations[m].selected = {} <=>
              migrations[m].workflow_state = "waiting_for_select"
    /\ (dry_run /\ outcome \notin {None, "course_not_found"}) =>
          /\ Requested("create")
          /\ outcome \in {"create_failed", "raised"} \cup UntriggeredExits
    /\ (dry_run /\ pc = "done") =>
          \A m \in 1..Len(migrations) :
              migrations[m].workflow_state = "waiting_for_select"

\* a dry run over two courses left two migrations waiting for their
\* selection
C17_Witness ==
    /\ dry_run
    /\ pc = "done"
    /\ outcome = "dry_run"
    /\ Len(migrations) = 2
    /\ migrations[1].workflow_state = "waiting_for_select"
    /\ migrations[2].workflow_state = "waiting_for_select"

\* the property keys of the listed items that pass the substring test and
\* whose title is not in the snapshot
SurvivingKeys ==
    { rubric_items[i].property :
        i \in { k \in 1..Len(rubric_items) :
                  /\ ContainsCI(rubric_items[k].title, rubric_match)
                  /\ LowerS(StripS(rubric_items[k].title)) \notin existing_titles } }
\* the titles the target course holds, as the snapshot would record them
TitlesInTarget == ExistingTitles(targetRubrics[target_id])

\* C18: a read of the target's rubrics that stops at a failed page raises
\* nothing: the snapshot is made of the pages read, the create request
\* follows as after a complete read, and the payload is every matching item
\* whose title is not in that snapshot, whether or not the target holds it.
C18_SnapshotReadUnguarded ==
    /\ raised \in {None, "list", "poll"}
    /\ Requested("rubrics") => existing_titles \subseteq TitlesInTarget
    /\ snapshotPartial =>
          /\ Requested("rubrics")
          /\ pc = "create" \/ Requested("create")
    /\ Requested("trigger") => copy_params = SurvivingKeys

\* after a read that stopped early a trigger was accepted whose payload
\* holds an item of a title the target course had from the start
C18_Witness ==
    /\ snapshotPartial
    /\ ~priorCompleted
    /\ Requested("trigger")
    /\ migrations[migration_id].workflow_state = "running"
    /\ \E i \in 1..Len(rubric_items) :
          /\ rubric_items[i].property \in migrations[migration_id].selected
          /\ LowerS(StripS(rubric_items[i].title)) \in TitlesInTarget

\* C19: when the trigger is accepted without a progress URL and no_wait is
\* not set, import_selected_rubrics returns without a progress read and the
\* triggered migration goes on unobserved; a terminal state is observed, and
\* a progress read made, only with a progress URL and without no_wait.
C19_NoProgressUrlNoPoll ==
    /\ outcome = "no_progress_url" =>
          /\ ~no_wait
          /\ ~progress_url
          /\ reqs = StepOrder
          /\ polls = 0
          /\ pc \in {"main_loop", "done"}
          /\ TriggerAccepted
    /\ (Requested("trigger") /\ TriggerAccepted /\ ~progress_url /\ ~no_wait) =>
          outcome = "no_progress_url"
    /\ (pc = "poll" \/ Requested("poll") \/ outcome \in {"completed", "failed"}) =>
          /\ progress_url
          /\ ~no_wait

\* the platform completed a migration whose trigger gave no progress URL;
\* the run ended without a progress read
C19_Witness ==
    /\ outcome = "no_progress_url"
    /\ pc = "done"
    /\ polls = 0
    /\ migrations[migration_id].workflow_state = "completed"

\* ------------------------------------------------------------------------
\* Properties of the decision log
\* ------------------------------------------------------------------------
DecisionKinds == {"ADD", "REPLACE", "SKIP", "NO MATCH"}
LastDecision(ds) == ds[Len(ds)]

\* C15: the evaluation of an assignment adds exactly one record to the
\* decisions, for that assignment and with a decision among ADD, REPLACE,
\* SKIP and NO MATCH: a record with NO MATCH when no candidate rubric was
\* found; the decision log, when asked for, holds these records.
C15_OneDecisionPerAssignment ==
    /\ [][/\ (pc = "aa_guess" /\ pc' # "aa_classify") =>
                /\ Len(decisions') = Len(decisions) + 1
                /\ LastDecision(decisions').assignment = upcoming[aidx].name
                /\ LastDecision(decisions').decision = "NO MATCH"
          /\ (pc = "aa_guess" /\ pc' = "aa_classify") => decisions' = decisions
          /\ pc = "aa_classify" =>
                /\ Len(decisions') = Len(decisions) + 1
                /\ LastDecision(decisions').assignment = upcoming[aidx].name
                /\ LastDecision(decisions').decision \in DecisionKinds
          /\ pc = "aa_apply" => decisions' = decisions]_vars
    /\ [](pc = "aa_done" /\ log_arg => logFile = Some(decisions))
====
